---- MODULE Spec2Model ----
(***************************************************************************)
(* SVRX Suggestions Web (src/server.js): an Express server over a MySQL    *)
(* table `suggestions`.  The file holds three variants of the server       *)
(* (lines 1-188, 190-378, 380-575); the variable `variant` says which one  *)
(* is the running process.                                                 *)
(*                                                                         *)
(* Strings are sequences of one-character strings.  A JavaScript value is  *)
(* a record [t, text]: its type tag and the text String(value) yields.     *)
(* Time is counted in clock ticks (the millisecond of Date.now()), with    *)
(* TicksPerSecond ticks to the second.                                     *)
(***************************************************************************)
EXTENDS Integers, Sequences, FiniteSets, TLC

VARIABLES
    variant,      \* which of the three server programs of the file is running
    ADMIN_USER,   \* const ADMIN_USER (a JS value; undefined in variant 2)
    ADMIN_PASS,   \* const ADMIN_PASS
    boot,         \* position of the start-up chain initDb().then(listen).catch(exit)
    pool,         \* `let pool`: FALSE while undefined, TRUE once createPool returned
    table,        \* TRUE when the table `suggestions` exists in the database
    now,          \* the wall clock, in ticks
    older,        \* rows the table already held when the process started
    store,        \* rows of `suggestions` inserted by this process
    req,          \* the requests awaiting the database, in order of arrival
    out           \* the request answered by the last step, with its response

vars == <<variant, ADMIN_USER, ADMIN_PASS, boot, pool, table, now, older, store, req, out>>

-----------------------------------------------------------------------------
(* Bounds of the model *)

MaxReq == 2            \* requests awaiting the database at once
MaxNew == 2            \* rows this process may insert
MaxTime == 2           \* last tick of the clock
MaxRand == 1           \* distinct outcomes of Math.random() in makeId
TicksPerSecond == 3    \* clock ticks per second (1000 in the program)

-----------------------------------------------------------------------------
(* Strings *)

Whitespace == {" ", "\t", "\n"}

Min(a, b) == IF a < b THEN a ELSE b

\* String.prototype.trim
Trim(s) ==
    IF \A i \in 1..Len(s) : s[i] \in Whitespace THEN <<>>
    ELSE LET a == CHOOSE i \in 1..Len(s) :
                    /\ s[i] \notin Whitespace
                    /\ \A k \in 1..(i-1) : s[k] \in Whitespace
             b == CHOOSE j \in 1..Len(s) :
                    /\ s[j] \notin Whitespace
                    /\ \A k \in (j+1)..Len(s) : s[k] \in Whitespace
         IN SubSeq(s, a, b)

\* String.prototype.split(sep) for a one-character separator
RECURSIVE Split(_, _)
Split(s, sep) ==
    IF \A i \in 1..Len(s) : s[i] # sep THEN <<s>>
    ELSE LET p == CHOOSE i \in 1..Len(s) :
                    s[i] = sep /\ \A k \in 1..(i-1) : s[k] # sep
         IN <<SubSeq(s, 1, p-1)>> \o Split(SubSeq(s, p+1, Len(s)), sep)

\* String.prototype.startsWith
StartsWith(s, prefix) ==
    /\ Len(s) >= Len(prefix)
    /\ SubSeq(s, 1, Len(prefix)) = prefix

Digits36 ==
    <<"0","1","2","3","4","5","6","7","8","9","a","b","c","d","e","f","g","h",
      "i","j","k","l","m","n","o","p","q","r","s","t","u","v","w","x","y","z">>

\* Number.prototype.toString(36) of a natural number
RECURSIVE ToBase36(_)
ToBase36(n) ==
    IF n < 36 THEN <<Digits36[n + 1]>>
    ELSE ToBase36(n \div 36) \o <<Digits36[(n % 36) + 1]>>

-----------------------------------------------------------------------------
(* JavaScript values *)

JUndef == [t |-> "undefined", text |-> <<>>]
JStr(s) == [t |-> "string", text |-> s]
JNum(s) == [t |-> "number", text |-> s]
JBool(b) == [t |-> "boolean",
             text |-> IF b THEN <<"t","r","u","e">> ELSE <<"f","a","l","s","e">>]
JArr(s) == [t |-> "array", text |-> s]
JObj == [t |-> "object",
         text |-> <<"[","o","b","j","e","c","t"," ","O","b","j","e","c","t","]">>]

\* ToBoolean(x), as in `!s` and `a || b`
Truthy(x) ==
    CASE x.t = "undefined" -> FALSE
      [] x.t = "string" -> x.text # <<>>
      [] x.t = "number" -> x.text \notin {<<"0">>, <<"N","a","N">>}
      [] x.t = "boolean" -> x.text = <<"t","r","u","e">>
      [] OTHER -> TRUE

\* a || b
OrElse(a, b) == IF Truthy(a) THEN a ELSE b

\* String(x)
JsString(x) == x.text

\* a === b on the primitive values used here
StrictEq(a, b) == a.t = b.t /\ a.text = b.text

-----------------------------------------------------------------------------
(* Base64, as Buffer.from(text, 'base64').toString() decodes it *)

\* the printable ASCII characters, code 32 first (code 96 is spelled out)
AsciiPrintable ==
    <<" ","!","\"","#","$","%","&","'","(",")","*","+",",","-",".","/",
      "0","1","2","3","4","5","6","7","8","9",":",";","<","=",">","?",
      "@","A","B","C","D","E","F","G","H","I","J","K","L","M","N","O",
      "P","Q","R","S","T","U","V","W","X","Y","Z","[","\\","]","^","_",
      "grave","a","b","c","d","e","f","g","h","i","j","k","l","m","n","o",
      "p","q","r","s","t","u","v","w","x","y","z","{","|","}","~">>

\* String.prototype.charCodeAt, on printable ASCII
CharCode(c) == 31 + (CHOOSE i \in 1..Len(AsciiPrintable) : AsciiPrintable[i] = c)

\* the character of a decoded byte; a byte that is no printable ASCII
\* character decodes to the replacement character, written "?"
FromCharCode(b) == IF b >= 32 /\ b <= 126 THEN AsciiPrintable[b - 31] ELSE "?"

Base64Alphabet ==
    <<"A","B","C","D","E","F","G","H","I","J","K","L","M","N","O","P",
      "Q","R","S","T","U","V","W","X","Y","Z","a","b","c","d","e","f",
      "g","h","i","j","k","l","m","n","o","p","q","r","s","t","u","v",
      "w","x","y","z","0","1","2","3","4","5","6","7","8","9","+","/">>

IsBase64Char(c) == \E i \in 1..64 : Base64Alphabet[i] = c

Sextet(c) == (CHOOSE i \in 1..64 : Base64Alphabet[i] = c) - 1

\* the three (or fewer) bytes of up to four sextets
RECURSIVE SextetsToBytes(_)
SextetsToBytes(q) ==
    IF Len(q) < 2 THEN <<>>
    ELSE IF Len(q) = 2 THEN <<q[1] * 4 + (q[2] \div 16)>>
    ELSE IF Len(q) = 3
         THEN <<q[1] * 4 + (q[2] \div 16), (q[2] % 16) * 16 + (q[3] \div 4)>>
    ELSE <<q[1] * 4 + (q[2] \div 16),
           (q[2] % 16) * 16 + (q[3] \div 4),
           (q[3] % 4) * 64 + q[4]>> \o SextetsToBytes(SubSeq(q, 5, Len(q)))

\* Buffer.from(text, 'base64').toString(): decoding stops at the first '=',
\* characters outside the alphabet are skipped
Base64Decode(text) ==
    LET stop == IF \E i \in 1..Len(text) : text[i] = "="
                THEN (CHOOSE i \in 1..Len(text) :
                        text[i] = "=" /\ \A k \in 1..(i-1) : text[k] # "=") - 1
                ELSE Len(text)
        kept == SelectSeq(SubSeq(text, 1, stop), IsBase64Char)
        q == [i \in 1..Len(kept) |-> Sextet(kept[i])]
        bytes == SextetsToBytes(q)
    IN [i \in 1..Len(bytes) |-> FromCharCode(bytes[i])]

\* the client's side: base64 of an ASCII string, with '=' padding
RECURSIVE BytesToBase64(_)
BytesToBase64(b) ==
    IF Len(b) = 0 THEN <<>>
    ELSE IF Len(b) = 1
         THEN <<Base64Alphabet[(b[1] \div 4) + 1],
                Base64Alphabet[(b[1] % 4) * 16 + 1], "=", "=">>
    ELSE IF Len(b) = 2
         THEN <<Base64Alphabet[(b[1] \div 4) + 1],
                Base64Alphabet[(b[1] % 4) * 16 + (b[2] \div 16) + 1],
                Base64Alphabet[(b[2] % 16) * 4 + 1], "=">>
    ELSE <<Base64Alphabet[(b[1] \div 4) + 1],
           Base64Alphabet[(b[1] % 4) * 16 + (b[2] \div 16) + 1],
           Base64Alphabet[(b[2] % 16) * 4 + (b[3] \div 64) + 1],
           Base64Alphabet[(b[3] % 64) + 1]>> \o BytesToBase64(SubSeq(b, 4, Len(b)))

Base64Encode(s) == BytesToBase64([i \in 1..Len(s) |-> CharCode(s[i])])

-----------------------------------------------------------------------------
(* Configuration: process.env and the constants read from it *)

DefaultAdminUser == JStr(<<"F","l","u","x","i","e","e","e">>)
DefaultAdminPass == JStr(<<"S","V","R","X","T","O","P">>)

\* the values of process.env.ADMIN_USER / ADMIN_PASS the process may start with
EnvSettings ==
    { [user |-> JUndef, pass |-> JUndef],
      [user |-> JStr(<<"a","l">>), pass |-> JStr(<<"p",":","q">>)] }

\* const ADMIN_USER = process.env.ADMIN_USER || 'Fluxieee'
AdminUserOf(env) == OrElse(env.user, DefaultAdminUser)

\* const ADMIN_PASS = process.env.ADMIN_PASS || 'SVRXTOP'
AdminPassOf(env) == OrElse(env.pass, DefaultAdminPass)

-----------------------------------------------------------------------------
(* Helpers of server.js *)

\* Date.now().toString(36) + '-' + Math.random().toString(36).slice(2, 8);
\* `rnd` stands for the digits Math.random() produced
makeId(ms, rnd) == ToBase36(ms) \o <<"-">> \o ToBase36(rnd)

\* a sanitize that forgets to trim: the mutant of sanitize
sanitizeNoTrim(s) == IF s.t = "string" THEN s.text ELSE <<>>

\* function sanitize(s) { return typeof s === 'string' ? s.trim() : ''; }
sanitize(s) == IF s.t = "string" THEN Trim(s.text) ELSE <<>>

\* function sanitizeString(s) { if (!s) return ''; return String(s).trim(); }
sanitizeString(s) == IF ~Truthy(s) THEN <<>> ELSE Trim(JsString(s))

\* the normalisation the running variant applies to one field
Clean(v, s) == IF v = 2 THEN sanitizeString(s) ELSE sanitize(s)

\* a replacement map without the entry of the double quote: the mutant of HtmlEntity
HtmlEntityNoQuote(c) ==
    CASE c = "&" -> <<"&","a","m","p",";">>
      [] c = "<" -> <<"&","l","t",";">>
      [] c = ">" -> <<"&","g","t",";">>
      [] OTHER -> <<c>>

\* c => ({ '&':'&amp;', '<':'&lt;', '>':'&gt;', '"':'&quot;' }[c]), other characters kept
HtmlEntity(c) ==
    CASE c = "&" -> <<"&","a","m","p",";">>
      [] c = "<" -> <<"&","l","t",";">>
      [] c = ">" -> <<"&","g","t",";">>
      [] c = "\"" -> <<"&","q","u","o","t",";">>
      [] OTHER -> <<c>>

RECURSIVE ReplaceEntities(_)
ReplaceEntities(s) ==
    IF s = <<>> THEN <<>> ELSE HtmlEntity(Head(s)) \o ReplaceEntities(Tail(s))

\* function escapeHtml(s) { if (!s) return ''; return String(s).replace(/[&<>"]/g, ...); }
escapeHtml(s) == IF ~Truthy(s) THEN <<>> ELSE ReplaceEntities(JsString(s))

BasicPrefix == <<"B","a","s","i","c"," ">>

-----------------------------------------------------------------------------
(* The table `suggestions` *)

\* created_at DATETIME: no fractional seconds, MySQL rounds to the second
RoundToSecond(t) == ((2 * t + TicksPerSecond) \div (2 * TicksPerSecond)) * TicksPerSecond

Row(id, c, created_at) ==
    [id |-> id, name |-> c.name, email |-> c.email, type |-> c.type,
     message |-> c.message, impact |-> c.impact, extra |-> c.extra,
     created_at |-> RoundToSecond(created_at)]

Ids(rows) == {x.id : x \in rows}

\* INSERT that overwrites the row of an equal id: the mutant of InsertResult
InsertOrReplace(rows, row) ==
    [rows |-> {x \in rows : x.id # row.id} \cup {row}, err |-> FALSE]

\* INSERT INTO suggestions ... with id VARCHAR(48) PRIMARY KEY: the table after
\* the statement and whether the statement failed (a duplicate key)
InsertResult(rows, row) ==
    IF row.id \in Ids(rows) THEN [rows |-> rows, err |-> TRUE]
    ELSE [rows |-> rows \cup {row}, err |-> FALSE]

\* the orders ORDER BY created_at DESC may deliver: ties come in any order
Orderings(rows) ==
    LET n == Cardinality(rows)
    IN { q \in [1..n -> rows] :
            /\ \A i, j \in 1..n : i # j => q[i] # q[j]
            /\ \A i \in 1..n : \A j \in i..n : q[i].created_at >= q[j].created_at }

\* the same statement without its LIMIT: a mutant of ListRecent
ListUnlimited(rows, old, limit) ==
    { [rows |-> q, older |-> old] : q \in Orderings(rows) }

\* ascending instead of descending: a mutant of ListRecent
ListOldest(rows, old, limit) ==
    { [rows |-> SubSeq(q, 1, Min(limit - Min(old, limit), Len(q))),
       older |-> Min(old, limit)] :
        q \in { p \in [1..Cardinality(rows) -> rows] :
                  /\ \A i, j \in 1..Cardinality(rows) : i # j => p[i] # p[j]
                  /\ \A i \in 1..Cardinality(rows) : \A j \in i..Cardinality(rows) :
                        p[i].created_at <= p[j].created_at } }

\* SELECT ... FROM suggestions ORDER BY created_at DESC LIMIT limit: the
\* results the statement may deliver.  The rows that were there before the
\* process started are older than every row of `rows`; a result holds the
\* rows of this process it returns and the number of older rows after them.
ListRecent(rows, old, limit) ==
    { [rows |-> SubSeq(q, 1, Min(limit, Len(q))),
       older |-> Min(old, limit - Min(limit, Len(q)))] : q \in Orderings(rows) }

API_LIMIT == 1000
ADMIN_LIMIT == 300
ADMIN_LIMIT_V2 == 200

AdminLimit(v) == IF v = 2 THEN ADMIN_LIMIT_V2 ELSE ADMIN_LIMIT

\* rows a table that exists before start-up holds: one short of the widest cap
OldRows == API_LIMIT - 1

\* new Date(created_at).toISOString() of a whole second of the first minute
IsoString(t) ==
    LET sec == t \div TicksPerSecond
    IN <<"1","9","7","0","-","0","1","-","0","1","T","0","0",":","0","0",":">>
       \o <<Digits36[(sec \div 10) + 1], Digits36[(sec % 10) + 1]>>
       \o <<".","0","0","0","Z">>

\* the <td> cells of one row of the admin table, in the order of the template
RenderRow(v, r) ==
    <<escapeHtml(JStr(r.id)),
      escapeHtml(JStr(IsoString(r.created_at))),
      escapeHtml(JStr(r.type)),
      escapeHtml(IF v = 2 THEN OrElse(JStr(r.impact), JStr(<<>>)) ELSE JStr(r.impact)),
      escapeHtml(JStr(r.name)),
      escapeHtml(JStr(r.email)),
      escapeHtml(JStr(r.message)),
      escapeHtml(IF v = 2 THEN OrElse(JStr(r.extra), JStr(<<>>)) ELSE JStr(r.extra))>>

-----------------------------------------------------------------------------
(* Requests *)

Body(name, email, type, message, impact, extra) ==
    [name |-> name, email |-> email, type |-> type, message |-> message,
     impact |-> impact, extra |-> extra]

MsgOk == <<"<","b",">">>

\* the request bodies clients send to POST /api/feedback, by number
Bodies ==
    << Body(JStr(<<" ","A">>), JStr(<<"e"," ">>), JStr(<<"\t","b"," ">>),
            JStr(<<" ">> \o MsgOk \o <<"\n">>), JStr(<<" ">>), JUndef),
       Body(JStr(<<"B">>), JStr(<<"e">>), JStr(<<"b">>), JStr(MsgOk),
            JStr(<<"x">>), JStr(<<"&","\"">>)),
       Body(JStr(<<"A">>), JStr(<<"e">>), JStr(<<"b">>), JStr(<<"h","i">>), JUndef, JUndef),
       Body(JStr(<<"A">>), JStr(<<"e">>), JStr(<<"b">>), JStr(<<" ","h"," ">>), JUndef, JUndef),
       Body(JUndef, JStr(<<"e">>), JStr(<<"b">>), JStr(MsgOk), JUndef, JUndef),
       Body(JStr(<<"A">>), JStr(<<" ">>), JStr(<<"b">>), JStr(MsgOk), JUndef, JUndef),
       Body(JStr(<<"A">>), JStr(<<"e">>), JStr(<<>>), JStr(MsgOk), JUndef, JUndef),
       Body(JStr(<<"A">>), JStr(<<"e">>), JStr(<<"b">>), JStr(<<"\n"," ">>), JUndef, JUndef),
       Body(JNum(<<"5">>), JStr(<<"e">>), JStr(<<"b">>), JArr(MsgOk), JBool(TRUE), JObj) >>

BasicHeader(c) == JStr(BasicPrefix \o Base64Encode(c))

\* the Authorization headers of GET /admin requests, by number (undefined: no
\* header)
AuthHeaders ==
    << JUndef,
       JStr(<<"B","e","a","r","e","r"," ","x">>),
       BasicHeader(<<"F","l","u","x","i","e","e","e",":","S","V","R","X","T","O","P">>),
       BasicHeader(<<"F","l","u","x","i","e","e","e",":","S","V","R","X","T","O","P",":","x">>),
       BasicHeader(<<"F","l","u","x","i","e","e","e">>),
       BasicHeader(<<"a","l",":","p",":","q">>) >>

\* Buffer.from(auth.split(' ')[1], 'base64').toString() of every header that
\* starts with 'Basic ' (computed once)
Credentials ==
    [h \in {AuthHeaders[k] : k \in {n \in 1..Len(AuthHeaders) :
                /\ Truthy(AuthHeaders[n])
                /\ StartsWith(AuthHeaders[n].text, BasicPrefix)}} |->
        Base64Decode(Split(h.text, " ")[2])]

\* function basicAuth(req, res, next): "401", "403" or "next"
basicAuth(auth, user0, pass0) ==
    IF ~Truthy(auth) \/ ~StartsWith(auth.text, BasicPrefix) THEN "401"
    ELSE LET creds == Credentials[auth]
             parts == Split(creds, ":")
             user == JStr(parts[1])
             pass == IF Len(parts) >= 2 THEN JStr(parts[2]) ELSE JUndef
         IN IF StrictEq(user, user0) /\ StrictEq(pass, pass0) THEN "next" ELSE "403"

\* what a response carries: status, the WWW-Authenticate header, and the body:
\* ok/error/id of a JSON body (`item`: the id comes inside an item object),
\* the text of a text body in `error`, and the rows a listing delivers
\* (`items` of this process, then `older` rows from before it)
NoRes ==
    [status |-> 0, challenge |-> FALSE, ok |-> "none", error |-> "", id |-> <<>>,
     item |-> FALSE, items |-> <<>>, older |-> 0]

\* a request: what it sent (the numbers of its body and Authorization header,
\* 0 for none), what the handler took for it (id, created_at), when it arrived
\* (t0), how many statements (ndb) and responses (nresp) the handler has
\* issued for it, and the error its catch block caught ("" for none)
NoReq ==
    [kind |-> "none", body |-> 0, auth |-> 0, id |-> <<>>, created_at |-> 0,
     t0 |-> 0, limit |-> 0, ndb |-> 0, nresp |-> 0, err |-> "", res |-> NoRes]

Inserting == {i \in 1..Len(req) : req[i].kind = "post"}

Remove(q, i) == SubSeq(q, 1, i - 1) \o SubSeq(q, i + 1, Len(q))

\* the handler answers request q with response res
Answer(q, res) == [q EXCEPT !.nresp = q.nresp + 1, !.res = res]

\* res.status(code).json({ ok: false, error }) / res.status(code).send(text)
Fail(code, error) == [NoRes EXCEPT !.status = code, !.ok = "false", !.error = error]
Text(code, text) == [NoRes EXCEPT !.status = code, !.error = text]

MissingMsg(v) ==
    IF v = 2 THEN "Missing required fields (name, email, type, message)."
    ELSE "Missing required fields."

-----------------------------------------------------------------------------
(* Start-up: initDb().then(() => app.listen(...)).catch(() => process.exit(1)) *)

Init ==
    /\ variant \in 1..3
    /\ \E env \in EnvSettings :
          /\ ADMIN_USER = IF variant = 2 THEN JUndef ELSE AdminUserOf(env)
          /\ ADMIN_PASS = IF variant = 2 THEN JUndef ELSE AdminPassOf(env)
    /\ boot = "start"
    /\ pool = FALSE
    /\ older \in {0, OldRows}
    /\ table = (older > 0)
    /\ now = 0
    /\ store = {}
    /\ req = <<>>
    /\ out = NoReq

Config == <<variant, ADMIN_USER, ADMIN_PASS, older>>

\* initDb is called: variant 1 creates the pool at once and sends CREATE TABLE;
\* variants 2 and 3 first open a temporary connection
InitDbBegin ==
    /\ boot = "start"
    /\ IF variant = 1
       THEN pool' = TRUE /\ boot' = "ensureTable"
       ELSE pool' = pool /\ boot' = "connect"
    /\ UNCHANGED <<Config, table, now, store, req, out>>

\* await mysql.createConnection(...) resolves
Connected ==
    /\ boot = "connect"
    /\ boot' = "createDatabase"
    /\ UNCHANGED <<Config, pool, table, now, store, req, out>>

\* await tmp.query(CREATE DATABASE IF NOT EXISTS ...) resolves
DatabaseEnsured ==
    /\ boot = "createDatabase"
    /\ boot' = "endTmp"
    /\ UNCHANGED <<Config, pool, table, now, store, req, out>>

\* await tmp.end() resolves; pool = mysql.createPool(...); CREATE TABLE is sent
PoolCreated ==
    /\ boot = "endTmp"
    /\ pool' = TRUE
    /\ boot' = "ensureTable"
    /\ UNCHANGED <<Config, table, now, store, req, out>>

\* await pool.execute(CREATE TABLE IF NOT EXISTS suggestions ...) resolves
TableEnsured ==
    /\ boot = "ensureTable"
    /\ table' = TRUE
    /\ boot' = "resolved"
    /\ UNCHANGED <<Config, pool, now, store, req, out>>

\* any of the awaited steps of initDb rejects
InitDbFails ==
    /\ boot \in {"connect", "createDatabase", "endTmp", "ensureTable"}
    /\ boot' = "rejected"
    /\ UNCHANGED <<Config, pool, table, now, store, req, out>>

\* a start-up that listens without waiting for initDb: the mutant of ListenGuard
ListenEarly == boot \in {"ensureTable", "resolved"}

\* app.listen runs in the .then of initDb()
ListenGuard == boot = "resolved"

Listen ==
    /\ ListenGuard
    /\ boot' = "listening"
    /\ UNCHANGED <<Config, pool, table, now, store, req, out>>

\* .catch(err => { console.error(...); process.exit(1); })
Exit ==
    /\ boot = "rejected"
    /\ boot' = "exited"
    /\ UNCHANGED <<Config, pool, table, now, store, req, out>>

\* the clock advances
Tick ==
    /\ boot = "listening"
    /\ now < MaxTime
    /\ now' = now + 1
    /\ out' = NoReq
    /\ UNCHANGED <<Config, boot, pool, table, store, req>>

-----------------------------------------------------------------------------
(* POST /api/feedback *)

\* const clean = { name: sanitize(name), ..., impact: sanitize(impact || ''), ... }
CleanBody(v, b) ==
    [name |-> Clean(v, b.name), email |-> Clean(v, b.email),
     type |-> Clean(v, b.type), message |-> Clean(v, b.message),
     impact |-> Clean(v, OrElse(b.impact, JStr(<<>>))),
     extra |-> Clean(v, OrElse(b.extra, JStr(<<>>)))]

\* CleanBody of every body a client sends (computed once)
Cleaned == [v \in 1..3 |-> [b \in 1..Len(Bodies) |-> CleanBody(v, Bodies[b])]]

\* if (clean.message.length < 3): present in variants 1 and 2, absent in variant 3
TooShort(v, c) == v # 3 /\ Len(c.message) < 3

\* if (!clean.name || !clean.email || !clean.type || !clean.message)
Missing(c) == c.name = <<>> \/ c.email = <<>> \/ c.type = <<>> \/ c.message = <<>>

\* the handler up to its await: normalise, validate, then either answer 400
\* or take an id and a time stamp (both read in the same tick) and send the
\* INSERT
PostFeedback(b, rnd) ==
    /\ boot = "listening"
    /\ Len(req) < MaxReq
    /\ Cardinality(store) + Cardinality(Inserting) < MaxNew
    /\ LET c == Cleaned[variant][b]
           q == [NoReq EXCEPT !.kind = "post", !.body = b, !.t0 = now]
       IN IF Missing(c)
          THEN /\ rnd = 0
               /\ out' = Answer(q, Fail(400, MissingMsg(variant)))
               /\ req' = req
          ELSE IF TooShort(variant, c)
          THEN /\ rnd = 0
               /\ out' = Answer(q, Fail(400, "Message too short."))
               /\ req' = req
          ELSE /\ req' = Append(req, [q EXCEPT !.id = makeId(now, rnd),
                                              !.created_at = now, !.ndb = 1])
               /\ out' = NoReq
    /\ UNCHANGED <<Config, boot, pool, table, now, store>>

\* res.json({ ok: true, id }); variant 2 sends { ok: true, item: { id, ... } }
Created(v, q) ==
    [NoRes EXCEPT !.status = 200, !.ok = "true", !.id = q.id, !.item = (v = 2)]

\* what a statement sent now throws, "" when the database runs it: pool is
\* undefined, the connection is lost, or the table is missing
DbError(lost) ==
    IF ~pool THEN "TypeError"
    ELSE IF lost THEN "ECONNRESET"
    ELSE IF ~table THEN "ER_NO_SUCH_TABLE"
    ELSE ""

\* await pool.execute(INSERT ...) settles and the handler runs to its end:
\* the statement is lost (`lost`), refused by the primary key, or applied
InsertCompletes(i, lost) ==
    /\ i \in 1..Len(req)
    /\ req[i].kind = "post"
    /\ LET q == req[i]
           after == InsertResult(store, Row(q.id, Cleaned[variant][q.body], q.created_at))
           err == IF DbError(lost) # "" THEN DbError(lost)
                  ELSE IF after.err THEN "ER_DUP_ENTRY" ELSE ""
       IN /\ store' = IF err # "" THEN store ELSE after.rows
          /\ out' = Answer([q EXCEPT !.err = err],
                           IF err # "" THEN Fail(500, "Server error.")
                           ELSE Created(variant, q))
    /\ req' = Remove(req, i)
    /\ UNCHANGED <<Config, boot, pool, table, now>>

-----------------------------------------------------------------------------
(* GET /api/suggestions and GET /admin *)

\* the handler up to its await: the SELECT ... LIMIT 1000 is sent
GetSuggestions ==
    /\ boot = "listening"
    /\ Len(req) < MaxReq
    /\ req' = Append(req, [NoReq EXCEPT !.kind = "list", !.t0 = now,
                                        !.limit = API_LIMIT, !.ndb = 1])
    /\ out' = NoReq
    /\ UNCHANGED <<Config, boot, pool, table, now, store>>

\* app.get('/admin', basicAuth, ...): variant 2 registers no basicAuth
Gate(v, auth, user0, pass0) == IF v = 2 THEN "next" ELSE basicAuth(auth, user0, pass0)

\* the gate, then the handler up to its await: the SELECT ... LIMIT 300 (200) is sent
GetAdmin(auth) ==
    /\ boot = "listening"
    /\ Len(req) < MaxReq
    /\ LET q == [NoReq EXCEPT !.kind = "admin", !.auth = auth, !.t0 = now]
           verdict == Gate(variant, AuthHeaders[auth], ADMIN_USER, ADMIN_PASS)
       IN CASE verdict = "401" ->
                 /\ out' = Answer(q, [Text(401, "Authentication required.")
                                         EXCEPT !.challenge = TRUE])
                 /\ req' = req
            [] verdict = "403" ->
                 /\ out' = Answer(q, [Text(403, "Access denied.")
                                         EXCEPT !.challenge = TRUE])
                 /\ req' = req
            [] OTHER ->
                 /\ req' = Append(req, [q EXCEPT !.limit = AdminLimit(variant),
                                                 !.ndb = 1])
                 /\ out' = NoReq
    /\ UNCHANGED <<Config, boot, pool, table, now, store>>

\* the response of a finished SELECT: res.json({ ok: true, items: rows }), or
\* the admin page made of the rows
Listing(q, result) ==
    [NoRes EXCEPT !.status = 200, !.ok = IF q.kind = "list" THEN "true" ELSE "none",
                  !.items = result.rows, !.older = result.older]

\* the cells of the table of an admin page: rows.map(r => `<tr>...</tr>`)
AdminPage(v, res) == [k \in 1..Len(res.items) |-> RenderRow(v, res.items[k])]

\* await pool.query(SELECT ...) settles and the handler runs to its end
QueryCompletes(i, lost) ==
    /\ i \in 1..Len(req)
    /\ req[i].kind \in {"list", "admin"}
    /\ LET q == req[i]
       IN IF DbError(lost) # ""
          THEN out' = Answer([q EXCEPT !.err = DbError(lost)],
                             IF q.kind = "list" THEN Fail(500, "Server error.")
                             ELSE Text(500, "Server error"))
          ELSE \E result \in ListRecent(store, older, q.limit) :
                  out' = Answer(q, Listing(q, result))
    /\ req' = Remove(req, i)
    /\ UNCHANGED <<Config, boot, pool, table, now, store>>

-----------------------------------------------------------------------------

Next ==
    \/ InitDbBegin
    \/ Connected
    \/ DatabaseEnsured
    \/ PoolCreated
    \/ TableEnsured
    \/ InitDbFails
    \/ Listen
    \/ Exit
    \/ Tick
    \/ \E b \in 1..Len(Bodies), rnd \in 0..(MaxRand - 1) : PostFeedback(b, rnd)
    \/ \E i \in 1..MaxReq, lost \in BOOLEAN : InsertCompletes(i, lost)
    \/ GetSuggestions
    \/ \E auth \in 1..Len(AuthHeaders) : GetAdmin(auth)
    \/ \E i \in 1..MaxReq, lost \in BOOLEAN : QueryCompletes(i, lost)

Spec == Init /\ [][Next]_vars

-----------------------------------------------------------------------------
(* What the claims speak of *)

Sent(q) == Bodies[q.body]
Header(q) == AuthHeaders[q.auth]

\* absent, or a string of white space only
Blank(x) == x.t = "undefined" \/ (x.t = "string" /\ \A k \in 1..Len(x.text) : x.text[k] \in Whitespace)

MissingRequired(b) == Blank(b.name) \/ Blank(b.email) \/ Blank(b.type) \/ Blank(b.message)

\* the characters of a string value that are no white space at its ends
Inner(x) ==
    LET ink == {k \in 1..Len(x.text) : x.text[k] \notin Whitespace}
    IN IF ink = {} THEN <<>>
       ELSE SubSeq(x.text, CHOOSE k \in ink : \A m \in ink : k <= m,
                           CHOOSE k \in ink : \A m \in ink : k >= m)

\* name, email and type are there and the message has one or two characters
ShortMessage(b) ==
    /\ ~Blank(b.name) /\ ~Blank(b.email) /\ ~Blank(b.type)
    /\ b.name.t = "string" /\ b.email.t = "string" /\ b.type.t = "string"
    /\ b.message.t = "string" /\ Len(Inner(b.message)) \in {1, 2}

Answered(kinds) == out.kind \in kinds

\* the request carries Basic credentials
HasBasic(h) == h.t = "string" /\ StartsWith(h.text, BasicPrefix)

\* the request carries exactly the configured user and password
ExactPair(h) ==
    /\ variant # 2
    /\ HasBasic(h)
    /\ Credentials[h] = ADMIN_USER.text \o <<":">> \o ADMIN_PASS.text

\* the tick at which the submission of a stored row was made: makeId puts
\* Date.now() in front of the '-'
SubmittedAt(row) ==
    CHOOSE t \in 0..MaxTime : StartsWith(row.id, ToBase36(t) \o <<"-">>)

-----------------------------------------------------------------------------
\* C1: a submission whose name, email, type or message is absent or blank is
\* answered 400 with ok:false and the missing-required-fields reason, no INSERT
\* is sent for it, and the table is the same after the request as before.
C1_MissingRejected ==
    [][ /\ \A k \in 1..Len(req') :
              req'[k].kind = "post" => ~MissingRequired(Sent(req'[k]))
        /\ (out'.kind = "post" /\ MissingRequired(Sent(out')))
              => /\ out'.res.status = 400
                 /\ out'.res.ok = "false"
                 /\ out'.res.error \in
                       {"Missing required fields.",
                        "Missing required fields (name, email, type, message)."}
                 /\ out'.ndb = 0
                 /\ out'.nresp = 1
                 /\ store' = store /\ older' = older ]_vars

C1_Witness ==
    /\ out.kind = "post" /\ MissingRequired(Sent(out))
    /\ out.res.status = 400 /\ store # {}

\* C2: a submission answered ok:true with an id has exactly one stored row of
\* that id, holding the trimmed submitted values and a created_at not earlier
\* than the submission, and every listing of fewer than 1000 newer rows
\* returns it.
C2_RoundTrip ==
    (out.kind = "post" /\ out.res.ok = "true")
       => /\ out.res.id # <<>>
          /\ Cardinality({x \in store : x.id = out.res.id}) = 1
          /\ \A x \in store : x.id = out.res.id =>
                /\ x.name = Inner(Sent(out).name)
                /\ x.email = Inner(Sent(out).email)
                /\ x.type = Inner(Sent(out).type)
                /\ x.message = Inner(Sent(out).message)
                /\ x.created_at >= out.t0
                /\ \A result \in ListRecent(store, older, API_LIMIT) :
                      \/ \E k \in 1..Len(result.rows) : result.rows[k] = x
                      \/ Cardinality({y \in store : y.created_at >= x.created_at /\ y # x})
                            >= 1000

\* C3: GET /admin without Basic credentials is answered 401 with a challenge,
\* with credentials other than the configured pair 403, and in both cases no
\* query is sent and no row is in the response.
C3_GateRejects ==
    /\ \A k \in 1..Len(req) : req[k].kind = "admin" => ExactPair(Header(req[k]))
    /\ (out.kind = "admin" /\ ~HasBasic(Header(out)))
          => /\ out.res.status = 401 /\ out.res.challenge
             /\ out.ndb = 0 /\ out.res.items = <<>> /\ out.res.older = 0
    /\ (out.kind = "admin" /\ HasBasic(Header(out)) /\ ~ExactPair(Header(out)))
          => /\ out.res.status = 403
             /\ out.ndb = 0 /\ out.res.items = <<>> /\ out.res.older = 0

\* C4: whatever pair is configured, a request carrying exactly that pair
\* passes the gate: it is never answered 401 or 403.
C4_ExactPairPasses ==
    (out.kind = "admin" /\ ExactPair(Header(out))) => out.res.status \notin {401, 403}

\* C5: in every variant, a submission with name, email and type and a message
\* of one or two characters is answered 400 'Message too short.' and no INSERT
\* is sent for it.
C5_ShortRejected ==
    /\ \A k \in 1..Len(req) : req[k].kind = "post" => ~ShortMessage(Sent(req[k]))
    /\ (out.kind = "post" /\ ShortMessage(Sent(out)))
          => /\ out.res.status = 400
             /\ out.res.error = "Message too short."
             /\ out.ndb = 0

\* C6: a submission whose INSERT fails (no pool, a lost connection, or an id
\* that a stored row already has) is answered once, with 500 and the fixed
\* body { ok: false, error: 'Server error.' }, which carries nothing of the
\* error caught; no second INSERT is sent, the table stays as it was, and the
\* ids of the stored rows stay pairwise distinct.
C6_InsertFailure ==
    /\ [](\A x, y \in store : x.id = y.id => x = y)
    /\ [][ (out'.kind = "post" /\ out'.ndb >= 1
              /\ (out'.err # "" \/ out'.id \in Ids(store)))
             => /\ out'.res = Fail(500, "Server error.")
                /\ out'.res.error # out'.err
                /\ out'.nresp = 1
                /\ out'.ndb = 1
                /\ Len(req') = Len(req) - 1
                /\ store' = store /\ older' = older ]_vars

\* a second submission got the id of a stored row and was answered 500
C6_Witness ==
    /\ out.kind = "post" /\ out.err = "ER_DUP_ENTRY"
    /\ out.res.status = 500
    /\ \E x \in store : x.id = out.id /\ x.name # Cleaned[variant][out.body].name

\* C7 (as claimed): of two stored submissions, the one submitted strictly
\* later comes first in every listing that holds both.
C7_LaterFirst ==
    (out.kind \in {"list", "admin"} /\ out.res.status = 200)
       => \A i, j \in 1..Len(out.res.items) :
             SubmittedAt(out.res.items[j]) > SubmittedAt(out.res.items[i]) => j < i

\* C7 (what ORDER BY created_at DESC gives): of two stored rows, the one whose
\* stored created_at is strictly later comes first in every listing that holds
\* both.
C7_NewestFirst ==
    (out.kind \in {"list", "admin"} /\ out.res.status = 200)
       => \A i, j \in 1..Len(out.res.items) :
             out.res.items[j].created_at > out.res.items[i].created_at => j < i

\* a listing of two rows stored with different created_at
C7_Witness ==
    /\ out.kind \in {"list", "admin"} /\ out.res.status = 200
    /\ Len(out.res.items) = 2
    /\ out.res.items[1].created_at > out.res.items[2].created_at

\* C8: GET /api/suggestions delivers at most 1000 rows and GET /admin at most
\* 300 (200 in variant 2), however many are stored; when more are stored, the
\* rows delivered are the most recent by created_at.
C8_Capped ==
    (out.kind \in {"list", "admin"} /\ out.res.status = 200)
       => LET cap == IF out.kind = "list" THEN 1000
                     ELSE IF variant = 2 THEN 200 ELSE 300
              got == {out.res.items[k] : k \in 1..Len(out.res.items)}
          IN /\ Len(out.res.items) + out.res.older <= cap
             /\ Cardinality(got) = Len(out.res.items)
             /\ got \subseteq store /\ out.res.older <= older
             /\ Len(out.res.items) + out.res.older
                    = Min(cap, Cardinality(store) + older)
             /\ \A x \in store \ got : /\ out.res.older = 0
                                       /\ \A y \in got : y.created_at >= x.created_at

\* GET /api/suggestions on a table of 1001 rows delivers 1000, the two newest first
C8_Witness ==
    /\ out.kind = "list" /\ out.res.status = 200
    /\ Cardinality(store) + older = 1001
    /\ Len(out.res.items) = 2 /\ out.res.older = 998

\* C9: the table is append-only: a stored row is never changed or removed;
\* listings, rejected and failed submissions leave the table as it is, and a
\* successful submission adds exactly one row.
C9_AppendOnly ==
    [][ /\ older' = older
        /\ store \subseteq store'
        /\ (store' # store)
              => /\ out'.kind = "post" /\ out'.res.ok = "true"
                 /\ Cardinality(store') = Cardinality(store) + 1
                 /\ \A x \in store' \ store : x.id = out'.res.id /\ x.id \notin Ids(store)
        /\ (out'.kind \in {"list", "admin"} \/ out'.res.status \in {400, 401, 403, 500})
              => store' = store
        /\ (out'.kind = "post" /\ out'.res.ok = "true")
              => Cardinality(store' \ store) = 1 ]_vars

\* a second submission was stored beside the first
C9_Witness ==
    /\ out.kind = "post" /\ out.res.ok = "true"
    /\ Cardinality(store) = 2

\* C10: requests are served only after initDb has resolved, with the pool
\* created and the table ensured; when initDb rejects the process exits and
\* never listens.
C10_ListenAfterInit ==
    /\ []((boot = "listening" \/ req # <<>> \/ out # NoReq)
             => (boot = "listening" /\ pool /\ table))
    /\ [][boot' = "listening" => boot \in {"resolved", "listening"}]_vars
    /\ [][(boot \in {"rejected", "exited"})
             => (boot' \in {"rejected", "exited"} /\ req' = <<>> /\ out' = NoReq)]_vars

\* a submission is served by a process that had to create the table itself
C10_Witness ==
    /\ boot = "listening" /\ older = 0 /\ table
    /\ out.kind = "post" /\ out.res.ok = "true"

\* the text a browser shows for a cell: each of the four entities read back
\* as its character
RECURSIVE Unescape(_)
Unescape(s) ==
    IF s = <<>> THEN <<>>
    ELSE IF StartsWith(s, <<"&","a","m","p",";">>) THEN <<"&">> \o Unescape(SubSeq(s, 6, Len(s)))
    ELSE IF StartsWith(s, <<"&","l","t",";">>) THEN <<"<">> \o Unescape(SubSeq(s, 5, Len(s)))
    ELSE IF StartsWith(s, <<"&","g","t",";">>) THEN <<">">> \o Unescape(SubSeq(s, 5, Len(s)))
    ELSE IF StartsWith(s, <<"&","q","u","o","t",";">>) THEN <<"\"">> \o Unescape(SubSeq(s, 7, Len(s)))
    ELSE <<Head(s)>> \o Unescape(Tail(s))

\* the number of places of s that hold a character of cs
Count(s, cs) == Cardinality({k \in 1..Len(s) : s[k] \in cs})

\* cell is field with every & < > " replaced by its entity and nothing else changed
EscapedAs(cell, field) ==
    /\ Count(cell, {"<", ">", "\""}) = 0
    /\ Unescape(cell) = field
    /\ Len(cell) = Len(field) + 4 * Count(field, {"&"}) + 3 * Count(field, {"<", ">"})
                              + 5 * Count(field, {"\""})

\* C11: in every admin page delivered, each of the eight cells of each row is
\* the row's field (created_at as its ISO text) with every & < > " replaced by
\* its entity: no cell holds a raw <, > or ", and <script> is shown as the
\* text &lt;script&gt;.
C11_CellsEscaped ==
    (out.kind = "admin" /\ out.res.status = 200)
       => /\ \A k \in 1..Len(out.res.items) :
                LET r == out.res.items[k]
                    cells == AdminPage(variant, out.res)[k]
                    fields == <<r.id, IsoString(r.created_at), r.type, r.impact,
                                r.name, r.email, r.message, r.extra>>
                IN Len(cells) = 8 /\ \A f \in 1..8 : EscapedAs(cells[f], fields[f])
          /\ escapeHtml(JStr(<<"<","s","c","r","i","p","t",">">>))
                = <<"&","l","t",";","s","c","r","i","p","t","&","g","t",";">>

\* an admin page with a row whose message holds markup and whose extra holds & and "
C11_Witness ==
    /\ out.kind = "admin" /\ out.res.status = 200
    /\ \E k \in 1..Len(out.res.items) :
          /\ Count(out.res.items[k].message, {"<"}) > 0
          /\ Count(out.res.items[k].extra, {"&"}) > 0
          /\ Count(out.res.items[k].extra, {"\""}) > 0

\* the value the normalisation is said to give: a string trimmed, anything else empty
Normalized(x) == IF x.t = "string" THEN Inner(x) ELSE <<>>

\* name, email, type or message is a number, a boolean, an array or an object
NonStringRequired(b) ==
    \E x \in {b.name, b.email, b.type, b.message} : x.t \notin {"string", "undefined"}

\* the six fields of a body as the handler of the running variant cleans them
\* are the normalised values
CleanedAsSaid(b) ==
    LET c == Cleaned[variant][b]
    IN /\ c.name = Normalized(Bodies[b].name)
       /\ c.email = Normalized(Bodies[b].email)
       /\ c.type = Normalized(Bodies[b].type)
       /\ c.message = Normalized(Bodies[b].message)
       /\ c.impact = Normalized(Bodies[b].impact)
       /\ c.extra = Normalized(Bodies[b].extra)

\* C12: in every variant, each field of a submission is cleaned to its trimmed
\* text when it is a string and to the empty string when it is absent or no
\* string; so a submission whose name, email, type or message is no string is
\* answered 400 as missing required fields, no INSERT is sent for it and no
\* row of it is stored.
C12_NonStringsEmptied ==
    /\ \A k \in 1..Len(req) :
          req[k].kind = "post"
             => CleanedAsSaid(req[k].body) /\ ~NonStringRequired(Sent(req[k]))
    /\ out.kind = "post" => CleanedAsSaid(out.body)
    /\ (out.kind = "post" /\ NonStringRequired(Sent(out)))
          => /\ out.res.status = 400
             /\ out.res.error \in
                   {"Missing required fields.",
                    "Missing required fields (name, email, type, message)."}
             /\ out.ndb = 0

====
